---- MODULE Spec2Model ----
(***************************************************************************)
(* Model of the Meta Ads ingestion scripts (meta_age.py, meta_data_full.py, *)
(* meta_region.py, sync_schema.py): asynchronous report jobs (submit, poll, *)
(* paginated fetch) and the schema-evolving window-replacing write into a   *)
(* PostgreSQL (Neon) destination table.                                     *)
(***************************************************************************)
EXTENDS Integers, Sequences, FiniteSets, TLC

(***************************************************************************)
(* Bounds of the model.                                                     *)
(***************************************************************************)
\* dates are 0 .. MaxDate (ISO date strings compare like these integers)
MaxDate == 2
\* a row's metric payload is 1 .. MaxVal
MaxVal == 2
\* a run's DataFrame holds 1 .. MaxRows rows
MaxRows == 2
\* the first NumAccounts entries of AD_ACCOUNT_IDS are modelled
NumAccounts == 2
\* a job's result is served as 1 .. MaxPages pages
MaxPages == 2
\* a page holds 0 .. MaxPageRows rows
MaxPageRows == 2
\* a raw row's actions list holds 0 .. MaxActions entries
MaxActions == 2
MaxRequests == 3

Dates == 0 .. MaxDate

\* START_DATE = "2026-01-01": date 1 of the model, so that date 0 lies before it
START_DATE == 1
Vals == 1 .. MaxVal

\* two invocations of the same script (say a scheduled and a manual run); each
\* runs the script once
Writers == {"run_a", "run_b"}

\* columns every DataFrame carries, and one dynamically discovered metric column
BaseCols == {"date_start", "result"}
DynCols == {"link_click"}

VARIABLES
    \* ---- destination store (committed state) ----
    tableExists,   \* information_schema.tables has TABLE_NAME
    tableCols,     \* the table's columns
    tableRows,     \* the committed rows, each with its physical identity
    \* ---- one run of the script's write stage, per invocation ----
    wpc,           \* position in the script
    END_DATE,      \* the run's window end: the invoking machine's local date
    df,            \* the run's DataFrame: a sequence of row contents
    dfCols,        \* df.columns
    table_exists,  \* the script's variable table_exists
    txSnap,        \* rows the DELETE statement's snapshot selected
    txDel,         \* rows deleted by the open transaction
    txIns,         \* rows inserted by the open transaction
    \* ---- bookkeeping ----
    serial,        \* TRUE: invocations never overlap
    table0,        \* the destination table the behaviour started with
    before,        \* per run: committed rows when its write began
    last,          \* the last committed write: window, df, window content after it
    prev           \* the committed write before that

VARIABLES
    \* ---- the reporting API ----
    srvPages,        \* per account: the pages its report job's result is served as
    \* ---- the main fetch loop ----
    mpc,             \* position in the script: which of the three loops runs
    idx,             \* index of the current loop's iteration
    jobs,            \* the dict jobs, in insertion order
    completed_jobs,  \* the dict completed_jobs, in insertion order
    all_data,        \* the list all_data
    outcome,         \* per account: what became of its job
    \* ---- poll_job ----
    ppc,             \* position in poll_job
    elapsed,         \* time.time() - start at the top of the loop
    poll_interval,   \* poll_interval
    status,          \* the async_status of the last response
    success,         \* poll_job's return value
    \* ---- fetch_job_results ----
    fpc,             \* position in fetch_job_results
    url,             \* the page the next request asks for (0: none)
    rows,            \* the list rows
    page,            \* the counter page
    requested        \* the pages requested by this call, in order

mainVars == <<mpc, idx, jobs, completed_jobs, all_data, outcome>>

pollVars == <<ppc, elapsed, poll_interval, status, success>>

fetchVars == <<fpc, url, rows, page, requested>>

ovars == <<srvPages, mainVars, pollVars, fetchVars>>

VARIABLES
    \* ---- the flatten stage, applied to one raw row ----
    tpc,             \* "input": a raw row is at hand; "done": a function was applied
    row,             \* the raw row
    script,          \* the script whose function was applied to the row
    ret,             \* what the call did: the value returned, or the exception raised
    processed        \* the list processed, once the source array fields are popped

tvars == <<tpc, row, script, ret, processed>>

VARIABLES
    \* ---- schema sync of one table (sync_schema.py) ----
    spc,             \* position in the sync of the table
    has_table,       \* inspector.has_table(table_name)
    columns,         \* the table's committed columns: name -> type
    df_columns,      \* the required columns
    missing_cols,    \* missing_cols, as add_missing_columns computed it
    bad,             \* the columns whose ALTER the database rejects
    txOk,            \* the open transaction is not in the aborted state
    txAdded,         \* columns added by the open transaction
    alters,          \* the ALTER statements executed, in order: the column of each
    succeeded,       \* the columns whose ALTER statement returned without error
    columns0         \* the table's columns when the sync began

svars == <<spc, has_table, columns, df_columns, missing_cols, bad, txOk, txAdded,
           alters, succeeded, columns0>>

wvars == <<tableExists, tableCols, tableRows, wpc, END_DATE, df, dfCols,
           table_exists, txSnap, txDel, txIns, serial, table0, before, last, prev>>

vars == <<wvars, ovars, tvars, svars>>

(***************************************************************************)
(* Rows.                                                                    *)
(***************************************************************************)
Content == [date_start : Dates, val : Vals]

\* the content of a stored row (its identity dropped)
ContentOf(r) == [date_start |-> r.date_start, val |-> r.val]

\* a date of the inclusive window [start, end]
InWindow(d, start, end) == d >= start /\ d <= end

\* the stored rows dated inside the window
WindowRows(tbl, start, end) == {r \in tbl : InWindow(r.date_start, start, end)}

OutsideRows(tbl, start, end) == tbl \ WindowRows(tbl, start, end)

\* multiset of contents of a set of stored rows
Count(tbl) == [c \in Content |-> Cardinality({r \in tbl : ContentOf(r) = c})]

\* multiset of contents of a DataFrame
CountSeq(s) == [c \in Content |-> Cardinality({i \in DOMAIN s : s[i] = c})]

\* the rows df.to_sql inserts for invocation n: one stored row per DataFrame row,
\* with the DataFrame's columns (val stands for the metric columns; account_id is
\* carried where the DataFrame was built from fetched rows)
ToSqlRows(s, n) ==
    {IF "account_id" \in DOMAIN s[i]
       THEN [id |-> <<n, i>>, date_start |-> s[i].date_start, val |-> s[i].val,
             account_id |-> s[i].account_id]
       ELSE [id |-> <<n, i>>, date_start |-> s[i].date_start, val |-> s[i].val]
     : i \in DOMAIN s}

\* DataFrames a run with window [start, end] can produce: the API is queried with
\* time_range = {since: start, until: end}; the DataFrame is never empty here
\* (an empty one exits before the write stage)
RowSeqs(n, start, end) ==
    [1 .. n -> {c \in Content : InWindow(c.date_start, start, end)}]

\* the order of the rows plays no part in the write, so DataFrames are enumerated
\* up to row order (rows sorted by date, then payload)
RowKey(c) == c.date_start * (MaxVal + 1) + c.val

SortedRows(s) == \A i \in DOMAIN s : \A j \in DOMAIN s : i < j => RowKey(s[i]) <= RowKey(s[j])

DataFrames(start, end) ==
    {s \in UNION {RowSeqs(n, start, end) : n \in 1 .. MaxRows} : SortedRows(s)}

(***************************************************************************)
(* The report job orchestrator of meta_age.py: create_async_job, poll_job,  *)
(* fetch_job_results and the three loops of the main fetch loop.            *)
(***************************************************************************)
\* poll_job(job_id, timeout_minutes=30)
timeout_minutes == 30
\* poll_interval = 10
InitialPollInterval == 10
\* poll_interval = min(poll_interval + 5, 30)
PollIntervalStep == 5
PollIntervalCap == 30

\* seconds a status request takes: it returns at once, or after five seconds
Latencies == {0, 5}

AD_ACCOUNT_IDS == [i \in 1 .. NumAccounts |-> i]

\* the report_run_id the API hands out for an account's job
JobId(account) == <<"report_run", account>>

\* data.get("async_status", "unknown")
Statuses == {"Job Completed", "Job Failed", "Job Skipped", "Job Running", "unknown"}

Min(a, b) == IF a < b THEN a ELSE b

\* the i-th row of page p of the result of an account's job
RawRow(account, p, i) == [job |-> JobId(account), page |-> p, k |-> i]

\* the pages of a result: page p holds counts[p] rows and the cursor of page p + 1;
\* the response for page failAt carries no "data" (failAt = 0: no page fails)
PagesFor(account, counts, failAt) ==
    [p \in 1 .. Len(counts) |->
        [ok |-> p # failAt,
         data |-> IF p = failAt THEN <<>>
                  ELSE [i \in 1 .. counts[p] |-> RawRow(account, p, i)],
         next |-> IF p < Len(counts) THEN p + 1 ELSE 0]]

PageCounts == UNION {[1 .. n -> 0 .. MaxPageRows] : n \in 1 .. MaxPages}

PageConfigs(account) ==
    {PagesFor(account, counts, failAt) : counts \in PageCounts, failAt \in 0 .. MaxPages}

\* results whose cursors the server sets as it likes: the "next" of a page names
\* any other page of the result, an earlier one included (0: no "next"); a page
\* holds one row or an empty "data" list
CursorConfigs(account) ==
    {[p \in 1 .. n |->
         [ok |-> p # failAt,
          data |-> IF p = failAt THEN <<>>
                   ELSE [i \in 1 .. counts[p] |-> RawRow(account, p, i)],
          next |-> nx[p]]] :
       <<n, nx, counts, failAt>> \in
          UNION {{n} \X {f \in [1 .. n -> 0 .. n] : \A q \in 1 .. n : f[q] # q}
                     \X [1 .. n -> 0 .. 1] \X (0 .. n) : n \in 1 .. MaxPages}}

\* the results served in the runs over several accounts: two pages of one row, or
\* one empty page
JobPageConfigs(account) ==
    {PagesFor(account, <<1, 1>>, 0), PagesFor(account, <<0>>, 0)}

\* for account in AD_ACCOUNT_IDS / for account, job_id in jobs.items(): the loop goes
\* on to the next entry whatever became of this one
BreakOnFailure(i, n, ok) == IF ok THEN i + 1 ELSE n + 1

\* the same entry again after a failure
RetryOnFailure(i, n, ok) == IF ok THEN i + 1 ELSE i

NextIteration(i, n, ok) == i + 1

\* status in ("Job Failed", "Job Skipped")
OnlyJobFailed(st) == st = "Job Failed"

IsFailure(st) == st \in {"Job Failed", "Job Skipped"}

\* poll_interval = min(poll_interval + 5, 30)
UncappedInterval(i) == i + PollIntervalStep

NextInterval(i) == Min(i + PollIntervalStep, PollIntervalCap)

\* elapsed > timeout_minutes * 60
TimedOut(e) == e > timeout_minutes * 60

\* rows.extend(data["data"])
OverwriteRows(rs, data) == data

ExtendRows(rs, data) == rs \o data

\* the break on a response without "data" keeps what was collected
DiscardRows(rs) == <<>>

RowsOnError(rs) == rs

\* for row in rows: row["account_id"] = account
Tagged(rs, account) ==
    [i \in DOMAIN rs |-> [job |-> rs[i].job, page |-> rs[i].page, k |-> rs[i].k,
                          account_id |-> account]]

\* the locals of poll_job and of fetch_job_results outside a call
NoPoll ==
    /\ ppc = "call" /\ elapsed = 0 /\ poll_interval = InitialPollInterval
    /\ status = "none" /\ success = FALSE

NoFetch == fpc = "call" /\ url = 0 /\ rows = <<>> /\ page = 0 /\ requested = <<>>

\* job_id = create_async_job(account); if job_id: jobs[account] = job_id
SubmitJob ==
    /\ mpc = "submit"
    /\ idx <= Len(AD_ACCOUNT_IDS)
    /\ LET account == AD_ACCOUNT_IDS[idx] IN
       \E accepted \in BOOLEAN :
          /\ jobs' = IF accepted
                       THEN Append(jobs, [account |-> account, job_id |-> JobId(account)])
                       ELSE jobs
          /\ outcome' = [outcome EXCEPT ![account] = IF accepted THEN "submitted" ELSE "rejected"]
          /\ idx' = NextIteration(idx, Len(AD_ACCOUNT_IDS), accepted)
    /\ UNCHANGED <<mpc, completed_jobs, all_data, srvPages, pollVars, fetchVars>>
    /\ UNCHANGED <<wvars, tvars, svars>>

\* the first loop is over: STEP 2
SubmitLoopEnds ==
    /\ mpc = "submit"
    /\ idx > Len(AD_ACCOUNT_IDS)
    /\ mpc' = "poll"
    /\ idx' = 1
    /\ ppc' = "call"
    /\ UNCHANGED <<jobs, completed_jobs, all_data, outcome, srvPages, fetchVars>>
    /\ UNCHANGED <<elapsed, poll_interval, status, success>>
    /\ UNCHANGED <<wvars, tvars, svars>>

\* success = poll_job(job_id): start = time.time(); poll_interval = 10
PollEnter ==
    /\ mpc = "poll"
    /\ ppc = "call"
    /\ idx <= Len(jobs)
    /\ elapsed' = 0
    /\ poll_interval' = InitialPollInterval
    /\ status' = "none"
    /\ success' = FALSE

    /\ ppc' = "loop"
    /\ UNCHANGED <<mainVars, srvPages, fetchVars>>
    /\ UNCHANGED <<wvars, tvars, svars>>

\* if elapsed > timeout_minutes * 60: return False
PollTimeout ==
    /\ ppc = "loop"
    /\ TimedOut(elapsed)
    /\ success' = FALSE
    /\ ppc' = "returned"
    /\ UNCHANGED <<elapsed, poll_interval, status>>
    /\ UNCHANGED <<mainVars, srvPages, fetchVars>>
    /\ UNCHANGED <<wvars, tvars, svars>>

\* the rest of one iteration of "while True": the status request, the returns on a
\* terminal status, else time.sleep(poll_interval) and the longer interval
PollRequest ==
    /\ ppc = "loop"
    /\ ~TimedOut(elapsed)
    /\ \E st \in Statuses, latency \in Latencies :
          /\ status' = st
          /\ IF st = "Job Completed"
               THEN /\ success' = TRUE
                    /\ ppc' = "returned"
                    /\ UNCHANGED <<elapsed, poll_interval>>
               ELSE IF IsFailure(st)
               THEN /\ success' = FALSE
                    /\ ppc' = "returned"
                    /\ UNCHANGED <<elapsed, poll_interval>>
               ELSE /\ elapsed' = elapsed + latency + poll_interval
                    /\ poll_interval' = NextInterval(poll_interval)
                    /\ UNCHANGED <<success, ppc>>
    /\ UNCHANGED <<mainVars, srvPages, fetchVars>>
    /\ UNCHANGED <<wvars, tvars, svars>>

\* what the run records for a job whose poll returned
PollOutcome(ok, st) ==
    IF ok THEN "completed"
    ELSE IF st = "Job Failed" THEN "failed"
    ELSE IF st = "Job Skipped" THEN "skipped"
    ELSE "timeout"

\* if success: completed_jobs[account] = job_id
PollReturn ==
    /\ mpc = "poll"
    /\ ppc = "returned"
    /\ LET job == jobs[idx] IN
          /\ completed_jobs' = IF success THEN Append(completed_jobs, job) ELSE completed_jobs
          /\ outcome' = [outcome EXCEPT ![job.account] = PollOutcome(success, status)]
    /\ idx' = NextIteration(idx, Len(jobs), success)
    /\ ppc' = "call" /\ elapsed' = 0 /\ poll_interval' = InitialPollInterval
    /\ status' = "none" /\ success' = FALSE
    /\ UNCHANGED <<mpc, jobs, all_data, srvPages, fetchVars>>
    /\ UNCHANGED <<wvars, tvars, svars>>

\* the second loop is over: STEP 3
PollLoopEnds ==
    /\ mpc = "poll"
    /\ ppc = "call"
    /\ idx > Len(jobs)
    /\ mpc' = "fetch"
    /\ idx' = 1
    /\ fpc' = "call"
    /\ UNCHANGED <<jobs, completed_jobs, all_data, outcome, srvPages, pollVars>>
    /\ UNCHANGED <<url, rows, page, requested>>
    /\ UNCHANGED <<wvars, tvars, svars>>

\* rows = fetch_job_results(job_id): the first url, rows = [], page = 0
FetchEnter ==
    /\ mpc = "fetch"
    /\ fpc = "call"
    /\ idx <= Len(completed_jobs)
    /\ url' = 1
    /\ rows' = <<>>
    /\ page' = 0
    /\ requested' = <<>>
    /\ fpc' = "loop"
    /\ UNCHANGED <<mainVars, srvPages, pollVars>>
    /\ UNCHANGED <<wvars, tvars, svars>>

\* one iteration of "while True" in fetch_job_results
FetchPage ==
    /\ fpc = "loop"
    /\ LET data == srvPages[completed_jobs[idx].account][url] IN
          /\ requested' = Append(requested, url)
          /\ IF ~data.ok
               THEN /\ rows' = RowsOnError(rows)
                    /\ fpc' = "returned"
                    /\ UNCHANGED <<url, page>>
               ELSE /\ rows' = ExtendRows(rows, data.data)
                    /\ page' = page + 1
                    /\ IF data.next # 0
                         THEN url' = data.next /\ UNCHANGED fpc
                         ELSE fpc' = "returned" /\ UNCHANGED url
    /\ UNCHANGED <<mainVars, srvPages, pollVars>>
    /\ UNCHANGED <<wvars, tvars, svars>>

\* one iteration of "while True", explored without end: once MaxRequests requests
\* were made, an iteration that goes on to a next page is followed by its url only
\* (rows, page and the request log are no longer extended)
FetchPageCapped ==
    LET data == srvPages[completed_jobs[idx].account][url] IN
        IF Len(requested) < MaxRequests \/ ~data.ok \/ data.next = 0
          THEN FetchPage
          ELSE /\ fpc = "loop"
               /\ url' = data.next
               /\ UNCHANGED <<fpc, rows, page, requested>>
               /\ UNCHANGED <<mainVars, srvPages, pollVars>>
               /\ UNCHANGED <<wvars, tvars, svars>>

\* for row in rows: row["account_id"] = account; all_data.extend(rows)
FetchReturn ==
    /\ mpc = "fetch"
    /\ fpc = "returned"
    /\ all_data' = all_data \o Tagged(rows, completed_jobs[idx].account)
    /\ idx' = NextIteration(idx, Len(completed_jobs), TRUE)
    /\ fpc' = "call" /\ url' = 0 /\ rows' = <<>> /\ page' = 0 /\ requested' = <<>>
    /\ UNCHANGED <<mpc, jobs, completed_jobs, outcome, srvPages, pollVars>>
    /\ UNCHANGED <<wvars, tvars, svars>>

\* a test that takes everything for data
NeverEmpty(xs) == FALSE

\* "not all_data" of a list, "df.empty" of a DataFrame: it holds no row
Empty(xs) == xs = <<>>

\* the third loop is over: if not all_data: exit()
FetchLoopEnds ==
    /\ mpc = "fetch"
    /\ fpc = "call"
    /\ idx > Len(completed_jobs)
    /\ mpc' = IF Empty(all_data) THEN "exit" ELSE "flatten"
    /\ UNCHANGED <<idx, jobs, completed_jobs, all_data, outcome, srvPages, pollVars, fetchVars>>
    /\ UNCHANGED <<wvars, tvars, svars>>

\* the state of a script that runs no job (the write stage is modelled per invocation)
NoJobs ==
    /\ srvPages = [a \in 1 .. NumAccounts |-> PagesFor(a, <<1>>, 0)]
    /\ mpc = "none" /\ idx = 1 /\ jobs = <<>> /\ completed_jobs = <<>> /\ all_data = <<>>
    /\ outcome = [a \in 1 .. NumAccounts |-> "none"]
    /\ NoPoll
    /\ NoFetch

(***************************************************************************)
(* The result resolver (extract_result) of meta_data_full.py and            *)
(* meta_region.py. A raw row is a record; a key the dict lacks (or whose     *)
(* value is None) holds Absent. Metric values arrive as strings.            *)
(***************************************************************************)
Absent == "<absent>"

\* Python floats: the finite ones, nan and inf
Num(n) == [fin |-> TRUE, n |-> n]
NaN == [fin |-> FALSE, n |-> 0]
Infinity == [fin |-> FALSE, n |-> 1]

\* the strings float() parses, with the float each denotes
FloatLiterals ==
    [s \in {"3", "7", "9", "50", "90", "140", "nan", "inf"} |->
        CASE s = "3" -> Num(3) [] s = "7" -> Num(7) [] s = "9" -> Num(9)
          [] s = "50" -> Num(50) [] s = "90" -> Num(90) [] s = "140" -> Num(140)
          [] s = "nan" -> NaN [] s = "inf" -> Infinity]

\* float(value) if value else 0, with ValueError and TypeError turned into 0
safe_float(value) ==
    IF value = Absent \/ value = "" THEN Num(0)
    ELSE IF value \in DOMAIN FloatLiterals THEN FloatLiterals[value]
    ELSE Num(0)

\* what a call did
Return(v) == [kind |-> "return", val |-> v]
KeyError == [kind |-> "KeyError", val |-> Num(0)]
NotFound == [kind |-> "none", val |-> Num(0)]

\* OBJECTIVE_TO_RESULT_ACTIONS.get(objective, [])
OBJECTIVE_TO_RESULT_ACTIONS(objective) ==
    CASE objective = "OUTCOME_SALES" ->
             <<"omni_purchase", "offsite_conversion.fb_pixel_purchase", "purchase",
               "onsite_web_purchase", "onsite_web_app_purchase", "web_in_store_purchase">>
      [] objective = "CONVERSIONS" ->
             <<"omni_purchase", "offsite_conversion.fb_pixel_purchase", "purchase">>
      [] objective = "CATALOG_SALES" ->
             <<"omni_purchase", "offsite_conversion.fb_pixel_purchase">>
      [] objective \in {"LINK_CLICKS", "OUTCOME_TRAFFIC"} -> <<"link_click">>
      [] objective = "OUTCOME_ENGAGEMENT" -> <<"post_engagement", "page_engagement">>
      [] objective = "POST_ENGAGEMENT" -> <<"post_engagement">>
      [] objective = "OUTCOME_LEADS" ->
             <<"lead", "offsite_conversion.fb_pixel_lead", "onsite_conversion.lead_grouped">>
      [] objective = "OUTCOME_APP_PROMOTION" -> <<"app_install", "mobile_app_install">>
      [] objective = "MESSAGES" ->
             <<"onsite_conversion.messaging_conversation_started_7d",
               "onsite_conversion.messaging_first_reply">>
      [] objective = "PAGE_LIKES" -> <<"like">>
      [] objective = "EVENT_RESPONSES" -> <<"event_response">>
      [] objective = "STORE_VISITS" -> <<"omni_store_visit">>
      [] objective = "VIDEO_VIEWS" -> <<"video_view">>
      [] OTHER -> <<>>

\* meta_region.py: OBJECTIVE_TO_RESULT_ACTION.get(objective)
OBJECTIVE_TO_RESULT_ACTION(objective) ==
    CASE objective \in {"LINK_CLICKS", "OUTCOME_TRAFFIC"} -> "link_click"
      [] objective \in {"OUTCOME_ENGAGEMENT", "POST_ENGAGEMENT"} -> "post_engagement"
      [] objective \in {"OUTCOME_AWARENESS", "REACH", "BRAND_AWARENESS"} -> "reach"
      [] objective = "OUTCOME_LEADS" -> "lead"
      [] objective \in {"OUTCOME_SALES", "CONVERSIONS", "CATALOG_SALES"} ->
             "offsite_conversion.fb_pixel_purchase"
      [] objective = "OUTCOME_APP_PROMOTION" -> "app_install"
      [] objective = "PAGE_LIKES" -> "like"
      [] objective = "EVENT_RESPONSES" -> "event_response"
      [] objective = "MESSAGES" -> "onsite_conversion.messaging_conversation_started_7d"
      [] objective = "STORE_VISITS" -> "omni_store_visit"
      [] objective = "VIDEO_VIEWS" -> "video_view"
      [] OTHER -> Absent

AwarenessObjectives == {"OUTCOME_AWARENESS", "REACH", "BRAND_AWARENESS"}
SalesObjectives == {"OUTCOME_SALES", "CONVERSIONS", "CATALOG_SALES"}

\* for action in actions: if action["action_type"] == target_action: return
\* float(value) if value else 0 -- from entry i on; action["action_type"] raises
\* KeyError on an entry without that key
RECURSIVE ScanActions(_, _, _)
ScanActions(actions, i, target_action) ==
    IF i > Len(actions) THEN NotFound
    ELSE IF actions[i].action_type = Absent THEN KeyError
    ELSE IF actions[i].action_type = target_action
    THEN Return(safe_float(actions[i].value))
    ELSE ScanActions(actions, i + 1, target_action)

\* for target_action in target_actions: for action in actions: ... -- from target k on
RECURSIVE ScanTargets(_, _, _)
ScanTargets(actions, target_actions, k) ==
    IF k > Len(target_actions) THEN NotFound
    ELSE LET r == ScanActions(actions, 1, target_actions[k]) IN
         IF r.kind = "none" THEN ScanTargets(actions, target_actions, k + 1) ELSE r

\* the match taken in the order of the entries of actions
FirstListedMatch(actions, target_actions) ==
    LET hits == {i \in DOMAIN actions :
                    \E k \in DOMAIN target_actions :
                        actions[i].action_type = target_actions[k]}
    IN  IF hits = {} THEN NotFound
        ELSE Return(safe_float(actions[CHOOSE i \in hits : \A j \in hits : i <= j].value))

\* the two nested loops of meta_data_full.py's extract_result
FirstMatch(actions, target_actions) == ScanTargets(actions, target_actions, 1)

\* meta_data_full.py: extract_result(row)
extract_result(r) ==
    IF r.objective \in AwarenessObjectives
    THEN Return(safe_float(r.reach))
    ELSE LET m == FirstMatch(r.actions, OBJECTIVE_TO_RESULT_ACTIONS(r.objective)) IN
         IF m.kind = "none" THEN Return(Num(0)) ELSE m

\* meta_region.py: extract_result(row)
extract_result_region(r) ==
    LET target_action == OBJECTIVE_TO_RESULT_ACTION(r.objective)
        exact == IF target_action # Absent
                   THEN ScanActions(r.actions, 1, target_action) ELSE NotFound
        omni == IF r.objective \in SalesObjectives
                  THEN ScanActions(r.actions, 1, "omni_purchase") ELSE NotFound
    IN  IF exact.kind # "none" THEN exact
        ELSE IF omni.kind # "none" THEN omni
        ELSE IF r.objective \in AwarenessObjectives THEN Return(safe_float(r.reach))
        ELSE IF r.actions # <<>> THEN Return(safe_float(r.actions[1].value))
        ELSE Return(Num(0))

\* the raw rows the resolver is applied to
ResolverRows ==
    LET objectives == {"OUTCOME_SALES", "LINK_CLICKS", "OUTCOME_AWARENESS", "REACH",
                       "BRAND_AWARENESS", "SOME_NEW_OBJECTIVE", ""}
        action_types == {"omni_purchase", "purchase", "link_click", "reach", Absent}
        values == {"3", "50", "nan", "inf", "abc", Absent}
        entries == [action_type : action_types, value : values]
    IN  [objective : objectives,
         actions : UNION {[1 .. n -> entries] : n \in 0 .. MaxActions},
         reach : {"9", "nan", Absent}]

\* row["result"] = extract_result(row) in meta_data_full.py
ExtractResult ==
    /\ tpc = "input"
    /\ ret' = extract_result(row)
    /\ script' = "meta_data_full"
    /\ tpc' = "done"
    /\ UNCHANGED <<row, processed>>
    /\ UNCHANGED <<wvars, ovars, svars>>

\* row["result"] = extract_result(row) in meta_region.py
ExtractResultRegion ==
    /\ tpc = "input"
    /\ ret' = extract_result_region(row)
    /\ script' = "meta_region"
    /\ tpc' = "done"
    /\ UNCHANGED <<row, processed>>
    /\ UNCHANGED <<wvars, ovars, svars>>

\* the flatten stage is not running
NoFlatten ==
    /\ tpc = "none"
    /\ row = [objective |-> "", actions |-> <<>>, reach |-> Absent]
    /\ script = "none"
    /\ ret = NotFound
    /\ processed = <<>>

(***************************************************************************)
(* flatten. A row is a dict: here three maps from keys to the scalar        *)
(* strings (s), the floats (f) and the lists (l) it holds. A key is the      *)
(* triple <<prefix, name, suffix>> whose concatenation is the Python key, so *)
(* that "omni_purchase" + "_value" is <<"", "omni_purchase", "_value">>.     *)
(***************************************************************************)
Key(name) == <<"", name, "">>

\* a["action_type"].replace(".", "_")
Normalize(action_type) ==
    CASE action_type = "offsite_conversion.fb_pixel_purchase" ->
             "offsite_conversion_fb_pixel_purchase"
      [] OTHER -> action_type

\* indicator.split(":", 1)[-1] if ":" in indicator else indicator
IndicatorActionType(indicator) ==
    CASE indicator = "actions:omni_purchase" -> "omni_purchase"
      [] indicator = "actions:offsite_conversion.fb_pixel_purchase" ->
             "offsite_conversion.fb_pixel_purchase"
      [] OTHER -> indicator

EmptyMap == [k \in {} |-> Absent]
EmptyDict == [s |-> EmptyMap, f |-> EmptyMap, l |-> EmptyMap]

Keys(d) == DOMAIN d.s \cup DOMAIN d.f \cup DOMAIN d.l

\* row[k] = v, for v a string or None (m = "s"), a float ("f"), a list ("l")
SetField(d, m, k, v) ==
    LET Put(g) == [x \in DOMAIN g \cup {k} |-> IF x = k THEN v ELSE g[x]]
        Del(g) == [x \in DOMAIN g \ {k} |-> g[x]]
    IN  [s |-> IF m = "s" THEN Put(d.s) ELSE Del(d.s),
         f |-> IF m = "f" THEN Put(d.f) ELSE Del(d.f),
         l |-> IF m = "l" THEN Put(d.l) ELSE Del(d.l)]

\* row.get(k) is a non-empty list
NonEmptyList(d, k) == k \in DOMAIN d.l /\ d.l[k] # <<>>

\* safe_float(row.get(k1, row.get(k2, 0)))
FloatOfEither(d, k1, k2) ==
    LET FloatAt(k) == IF k \in DOMAIN d.s THEN safe_float(d.s[k])
                      ELSE IF k \in DOMAIN d.f THEN d.f[k]
                      ELSE Num(0)
    IN  IF k1 \in Keys(d) THEN FloatAt(k1)
        ELSE IF k2 \in Keys(d) THEN FloatAt(k2)
        ELSE Num(0)

TypeError == [kind |-> "TypeError", val |-> Num(0)]

\* raw[0]["values"][0]["value"], the subscripts of the results and cost_per_result
\* blocks: KeyError for a missing key, IndexError for an empty list, TypeError for
\* a "values" that is None
FirstValue(raw) ==
    LET e == raw[1] IN
    IF e.vkind = "missing" THEN [kind |-> "KeyError", val |-> Absent]
    ELSE IF e.vkind = "none" THEN [kind |-> "TypeError", val |-> Absent]
    ELSE IF e.values = <<>> THEN [kind |-> "IndexError", val |-> Absent]
    ELSE IF e.values[1].value = "<missing>" THEN [kind |-> "KeyError", val |-> Absent]
    ELSE [kind |-> "return", val |-> e.values[1].value]

ResultKey == Key("result")
ResultValueKey == <<"", "result", "_value">>

\* the value columns result_value is looked up in: f"{action_type}_catalog_value"
\* and f"{action_type}_value"
CatalogValueKey(action_type) == <<"", action_type, "_catalog_value">>
StandardValueKey(action_type) == <<"", action_type, "_value">>

\* meta_age.py lines 219-237: result, result_indicator, result_value, computed from
\* the row as it is at that point
ResultBlock(d) ==
    LET zeros == SetField(SetField(d, "f", ResultKey, Num(0)), "f", ResultValueKey, Num(0))
    IN
    IF ~NonEmptyList(d, Key("results"))
    THEN Return(zeros)
    ELSE LET raw == d.l[Key("results")]
             v == FirstValue(raw)
             d1 == SetField(d, "f", ResultKey, safe_float(v.val))
             indicator == raw[1].indicator
         IN  IF v.kind = "TypeError" THEN TypeError
             ELSE IF v.kind # "return" THEN Return(zeros)
             ELSE IF indicator # Absent /\ indicator # ""
             THEN Return(SetField(SetField(d1, "s", Key("result_indicator"), indicator),
                                  "f", ResultValueKey,
                                  FloatOfEither(d1,
                                      CatalogValueKey(IndicatorActionType(indicator)),
                                      StandardValueKey(IndicatorActionType(indicator)))))
             ELSE Return(SetField(d1, "f", ResultValueKey, Num(0)))

\* meta_age.py lines 239-246: cost_per_result_value
CostPerResultBlock(d) ==
    LET k == <<"cost_per_", "result", "_value">> IN
    IF ~NonEmptyList(d, Key("cost_per_result"))
    THEN Return(SetField(d, "f", k, Num(0)))
    ELSE LET v == FirstValue(d.l[Key("cost_per_result")]) IN
         IF v.kind = "TypeError" THEN TypeError
         ELSE IF v.kind # "return" THEN Return(SetField(d, "f", k, Num(0)))
         ELSE Return(SetField(d, "f", k, safe_float(v.val)))

\* for a in list: col = a["action_type"].replace(".", "_");
\* row[prefix + col + suffix] = a.get("value") -- from entry i on
RECURSIVE SpreadEntries(_, _, _, _, _)
SpreadEntries(d, list, i, prefix, suffix) ==
    IF i > Len(list) THEN Return(d)
    ELSE IF list[i].action_type = Absent THEN KeyError
    ELSE SpreadEntries(SetField(d, "s", <<prefix, Normalize(list[i].action_type), suffix>>,
                                list[i].value),
                       list, i + 1, prefix, suffix)

\* if row.get(field): for a in row[field]: ...
SpreadField(d, field, prefix, suffix) ==
    IF NonEmptyList(d, Key(field))
    THEN SpreadEntries(d, d.l[Key(field)], 1, prefix, suffix)
    ELSE Return(d)

\* roas_fields, each with its column field.replace("value_", "")
roas_fields ==
    <<[field |-> "catalog_segment_value_mobile_purchase_roas",
       column |-> "catalog_segment_mobile_purchase_roas"],
      [field |-> "catalog_segment_value_omni_purchase_roas",
       column |-> "catalog_segment_omni_purchase_roas"],
      [field |-> "catalog_segment_value_website_purchase_roas",
       column |-> "catalog_segment_website_purchase_roas"]>>

\* meta_age.py lines 273-279, from field i on
RECURSIVE RoasBlock(_, _)
RoasBlock(d, i) ==
    IF i > Len(roas_fields) THEN Return(d)
    ELSE IF ~NonEmptyList(d, Key(roas_fields[i].field)) THEN RoasBlock(d, i + 1)
    ELSE LET v == d.l[Key(roas_fields[i].field)][1].value IN
         RoasBlock(SetField(d, "f", Key(roas_fields[i].column),
                            IF v = "<missing>" THEN Num(0) ELSE safe_float(v)),
                   i + 1)

\* if row.get("purchase_roas"): for r in row["purchase_roas"]:
\*     row["purchase_roas"] = r.get("value")
PurchaseRoasBlock(d) ==
    IF NonEmptyList(d, Key("purchase_roas"))
    THEN LET list == d.l[Key("purchase_roas")] IN
         Return(SetField(d, "s", Key("purchase_roas"), list[Len(list)].value))
    ELSE Return(d)

\* the row extract_result reads
ResolverView(d) ==
    [objective |-> IF Key("objective") \in DOMAIN d.s THEN d.s[Key("objective")] ELSE "",
     actions |-> IF Key("actions") \in DOMAIN d.l THEN d.l[Key("actions")] ELSE <<>>,
     reach |-> IF Key("reach") \in DOMAIN d.s THEN d.s[Key("reach")] ELSE Absent]

\* flatten(row) of the script s: one statement after the other, an exception ends
\* the call
flatten(s, d) ==
    LET Then(r, Step(_)) == IF r.kind = "return" THEN Step(r.val) ELSE r
        \* row["result"] = extract_result(row)
        ResultFrom(r) ==
            IF r.kind = "return" THEN Return(SetField(d, "f", ResultKey, r.val)) ELSE r
        Actions(x) == SpreadField(x, "actions", "", "")
        ActionValues(x) == SpreadField(x, "action_values", "", "_value")
        CatalogActions(x) == SpreadField(x, "catalog_segment_actions", "", "_catalog")
        CatalogValue(x) == SpreadField(x, "catalog_segment_value", "", "_catalog_value")
        Roas(x) == RoasBlock(x, 1)
        CostPerAction(x) == SpreadField(x, "cost_per_action_type", "cost_per_", "")
    IN  CASE s = "meta_age" ->
                 Then(Then(Then(Then(Then(Then(Then(Then(ResultBlock(d),
                     CostPerResultBlock), Actions), ActionValues), CatalogActions),
                     CatalogValue), Roas), PurchaseRoasBlock), CostPerAction)
          [] s = "meta_data_full" ->
                 Then(Then(Then(Then(ResultFrom(extract_result(ResolverView(d))),
                     Actions), ActionValues), PurchaseRoasBlock), CostPerAction)
          [] s = "meta_region" ->
                 Then(Then(Then(ResultFrom(extract_result_region(ResolverView(d))),
                     Actions), ActionValues), PurchaseRoasBlock)

\* for r in processed: r.pop(..., None) for each of the keys the script s pops
PopFields(d, s) ==
    LET popped ==
            CASE s = "meta_age" ->
                     {"actions", "action_values", "cost_per_action_type", "results",
                      "cost_per_result", "catalog_segment_actions",
                      "catalog_segment_value",
                      "catalog_segment_value_mobile_purchase_roas",
                      "catalog_segment_value_omni_purchase_roas",
                      "catalog_segment_value_website_purchase_roas"}
              [] s = "meta_data_full" -> {"actions", "action_values", "cost_per_action_type"}
              [] s = "meta_region" -> {"actions", "action_values"}
        Without(g) == [k \in DOMAIN g \ {Key(n) : n \in popped} |-> g[k]]
    IN  [s |-> Without(d.s), f |-> Without(d.f), l |-> Without(d.l)]

\* the raw rows flatten is applied to in the script s: the array fields it requests,
\* each absent, empty or with entries, and some of its scalar fields
RawRows(s) ==
    LET NoList == [present |-> FALSE, list |-> <<>>]
        List(l) == [present |-> TRUE, list |-> l]
        WithList(d, name, opt) ==
            IF opt.present THEN SetField(d, "l", Key(name), opt.list) ELSE d
        WithScalar(d, k, v) == IF v = Absent THEN d ELSE SetField(d, "s", k, v)
        Entry(t, v) == [action_type |-> t, value |-> v]
        ResultEntry(indicator, vkind, values) ==
            [indicator |-> indicator, vkind |-> vkind, values |-> values]
        results ==
            {NoList, List(<<>>),
             List(<<ResultEntry("actions:omni_purchase", "list", <<[value |-> "7"]>>)>>),
             List(<<ResultEntry("actions:offsite_conversion.fb_pixel_purchase", "list",
                                <<[value |-> "7"]>>)>>),
             List(<<ResultEntry(Absent, "list", <<[value |-> "7"]>>)>>),
             List(<<ResultEntry("actions:omni_purchase", "list",
                                <<[value |-> "<missing>"]>>)>>),
             List(<<ResultEntry("actions:omni_purchase", "list", <<>>)>>),
             List(<<ResultEntry("actions:omni_purchase", "none", <<>>)>>)}
        cost_per_result ==
            {NoList, List(<<ResultEntry(Absent, "list", <<[value |-> "3"]>>)>>)}
        actions ==
            {NoList, List(<<Entry("omni_purchase", "3")>>), List(<<Entry(Absent, "3")>>)}
        action_values ==
            {NoList, List(<<Entry("omni_purchase", "90")>>),
             List(<<Entry("offsite_conversion.fb_pixel_purchase", "90")>>)}
        catalog_segment_actions == {NoList, List(<<Entry("omni_purchase", "3")>>)}
        catalog_segment_value ==
            {NoList, List(<<Entry("omni_purchase", "140")>>),
             List(<<Entry("offsite_conversion.fb_pixel_purchase", "140")>>)}
        omni_purchase_roas == {NoList, List(<<[value |-> "3"]>>)}
        purchase_roas ==
            {NoList, List(<<>>), List(<<[value |-> "3"]>>),
             List(<<[value |-> "3"], [value |-> "7"]>>)}
        cost_per_action_type ==
            {NoList, List(<<>>), List(<<Entry("omni_purchase", "3")>>)}
        omni_purchase_catalog_value == {Absent, "140"}
        objective == {"OUTCOME_SALES", "OUTCOME_AWARENESS"}
        reach == {Absent, "9"}
    IN  CASE s = "meta_age" ->
                 {WithScalar(
                    WithList(WithList(WithList(WithList(WithList(WithList(WithList(
                    WithList(EmptyDict,
                      "results", res), "cost_per_result", cpr), "actions", act),
                      "action_values", av), "catalog_segment_actions", ca),
                      "catalog_segment_value", cv),
                      "catalog_segment_value_omni_purchase_roas", ro),
                      "purchase_roas", pr),
                    CatalogValueKey("omni_purchase"), ex) :
                    res \in results, cpr \in cost_per_result, act \in actions,
                    av \in action_values, ca \in catalog_segment_actions,
                    cv \in catalog_segment_value, ro \in omni_purchase_roas,
                    pr \in purchase_roas, ex \in omni_purchase_catalog_value}
          [] s = "meta_data_full" ->
                 {WithScalar(WithScalar(
                    WithList(WithList(WithList(WithList(EmptyDict,
                      "actions", act), "action_values", av), "purchase_roas", pr),
                      "cost_per_action_type", cpa),
                    Key("objective"), ob), Key("reach"), re) :
                    act \in actions, av \in action_values, pr \in purchase_roas,
                    cpa \in cost_per_action_type, ob \in objective, re \in reach}
          [] s = "meta_region" ->
                 {WithScalar(WithScalar(
                    WithList(WithList(WithList(EmptyDict,
                      "actions", act), "action_values", av), "purchase_roas", pr),
                    Key("objective"), ob), Key("reach"), re) :
                    act \in actions, av \in action_values, pr \in purchase_roas,
                    ob \in objective, re \in reach}

Scripts == {"meta_age", "meta_data_full", "meta_region"}

\* a row of the same batch with no array at all
PlainRow == SetField(EmptyDict, "s", Key("objective"), "LINK_CLICKS")

\* processed = [flatten(r) for r in all_data] over the batch <<row, PlainRow>>, then
\* the pops; an exception raised by flatten ends the script
FlattenBatch ==
    /\ tpc = "batch"
    /\ ret' = flatten(script, row)
    /\ IF ret'.kind = "return"
         THEN /\ processed' = <<PopFields(ret'.val, script),
                                PopFields(flatten(script, PlainRow).val, script)>>
              /\ tpc' = "done"
         ELSE /\ processed' = <<>>
              /\ tpc' = "crashed"
    /\ UNCHANGED <<row, script>>
    /\ UNCHANGED <<wvars, ovars, svars>>

(***************************************************************************)
(* Schema sync (sync_schema.py; the scripts carry the same                  *)
(* add_missing_columns). The ALTER statements of one call run in one         *)
(* PostgreSQL transaction: a statement that fails puts the transaction in    *)
(* the aborted state, in which every later statement fails, and the commit   *)
(* at the end of the "with engine.begin()" block then rolls back.            *)
(***************************************************************************)
ColumnNames == {"date_start", "result", "link_click", "region"}
\* ADD COLUMN "{col}" DOUBLE PRECISION
DoubleColumnType == "DOUBLE PRECISION"

\* ADD COLUMN "{col}" TEXT
NewColumnType == "TEXT"

\* get_table_columns(engine, table_name)
get_table_columns(exists, cols) == IF exists THEN DOMAIN cols ELSE {}

\* missing_cols = set(df_columns) - existing_cols
MissingCols(required, existing_cols) == required \ existing_cols

\* sync_all_schemas: "if get_table_columns(engine, table_name)", and
\* add_missing_columns up to "with engine.begin() as conn"
SyncBegin ==
    /\ spc = "start"
    /\ LET existing_cols == get_table_columns(has_table, columns)
           missing == MissingCols(df_columns, existing_cols)
       IN  IF existing_cols = {} \/ missing = {}
           THEN /\ spc' = "done"
                /\ UNCHANGED <<missing_cols, bad>>
           ELSE /\ spc' = "altering"
                /\ missing_cols' = missing
                /\ bad' \in SUBSET missing
    /\ txOk' = TRUE
    /\ UNCHANGED <<has_table, columns, df_columns, txAdded, alters, succeeded, columns0>>
    /\ UNCHANGED <<wvars, ovars, tvars>>

\* one iteration of "for col in missing_cols": the ALTER TABLE ... ADD COLUMN
\* statement inside try/except
AlterColumn ==
    /\ spc = "altering"
    /\ \E col \in missing_cols \ {alters[i] : i \in DOMAIN alters} :
          /\ alters' = Append(alters, col)
          /\ IF txOk /\ col \notin bad /\ col \notin DOMAIN columns \cup txAdded
               THEN /\ txAdded' = txAdded \cup {col}
                    /\ succeeded' = succeeded \cup {col}
                    /\ UNCHANGED txOk
               ELSE /\ txOk' = FALSE
                    /\ UNCHANGED <<txAdded, succeeded>>
    /\ UNCHANGED <<spc, has_table, columns, df_columns, missing_cols, bad, columns0>>
    /\ UNCHANGED <<wvars, ovars, tvars>>

\* the end of the "with engine.begin()" block: COMMIT, which rolls back an aborted
\* transaction
SyncCommit ==
    /\ spc = "altering"
    /\ missing_cols = {alters[i] : i \in DOMAIN alters}
    /\ columns' = IF txOk
                    THEN [c \in DOMAIN columns \cup txAdded |->
                             IF c \in DOMAIN columns THEN columns[c] ELSE NewColumnType]
                    ELSE columns
    /\ txAdded' = {}
    /\ spc' = "done"
    /\ UNCHANGED <<has_table, df_columns, missing_cols, bad, txOk, alters, succeeded,
                   columns0>>
    /\ UNCHANGED <<wvars, ovars, tvars>>

\* no schema sync is running
NoSync ==
    /\ spc = "none" /\ has_table = FALSE /\ columns = EmptyMap /\ df_columns = {}
    /\ missing_cols = {} /\ bad = {} /\ txOk = TRUE /\ txAdded = {} /\ alters = <<>>
    /\ succeeded = {} /\ columns0 = EmptyMap

(***************************************************************************)
(* The destination store: PostgreSQL at its default isolation level (READ   *)
(* COMMITTED). A transaction's deletes and inserts stay private until it    *)
(* commits; a DELETE works on the snapshot taken when the statement starts  *)
(* and waits for row locks held by other open transactions.                 *)
(***************************************************************************)
\* a DELETE whose upper bound is exclusive (date_start < :end)
DeleteWhereExclusiveEnd(tbl, start, end) ==
    {r \in tbl : r.date_start >= start /\ r.date_start < end}

\* a DELETE without the upper bound (date_start >= :start only)
DeleteWhereNoUpperBound(tbl, start, end) ==
    {r \in tbl : r.date_start >= start}

\* a DELETE of the first day of the window only (date_start = :start)
DeleteWhereStartDay(tbl, start, end) ==
    {r \in tbl : r.date_start = start}

\* DELETE FROM t WHERE date_start >= :start AND date_start <= :end
DeleteWhere(tbl, start, end) ==
    {r \in tbl : r.date_start >= start /\ r.date_start <= end}

\* writers whose write transaction is open
InTx(w) == wpc[w] \in {"deleting", "insert", "commit"}

\* a commit that appends without the delete taking effect
CommitRowsAppendOnly(tbl, del, ins) == tbl \cup ins

\* the upsert transaction's COMMIT: deleted rows go, inserted rows appear
CommitRows(tbl, del, ins) == (tbl \ del) \cup ins

\* a failure that leaves the DELETE in effect (statements committed one by one)
RollbackKeepsDelete(tbl, del, ins) == tbl \ del

\* leaving "with engine.begin()" through an exception: ROLLBACK
RollbackRows(tbl, del, ins) == tbl

\* df.to_sql(if_exists="replace"): drop whatever is there, create and fill
ReplaceRows(tbl, ins) == ins

NoLast == [kind |-> "none"]

\* when invocations do not overlap, run_a is the earlier one
Earlier(w) == IF w = "run_b" THEN {"run_a"} ELSE {}

\* the script starts: END_DATE/START_DATE are fixed, the rows are collected and
\* flattened into df
BeginRun(w) ==
    /\ wpc[w] = "idle"
    /\ serial => \A v \in Earlier(w) : wpc[v] \in {"exited", "crashed"}
    /\ \E end \in START_DATE .. MaxDate :
          /\ \E d \in DataFrames(START_DATE, end), extra \in SUBSET DynCols :
                /\ END_DATE' = [END_DATE EXCEPT ![w] = end]
                /\ df' = [df EXCEPT ![w] = d]
                /\ dfCols' = [dfCols EXCEPT ![w] = BaseCols \cup extra]
    /\ wpc' = [wpc EXCEPT ![w] = "check"]
    /\ UNCHANGED <<tableExists, tableCols, tableRows, table_exists, txSnap, txDel, txIns,
                   serial, table0, before, last, prev>>
    /\ UNCHANGED <<ovars, tvars, svars>>

\* SELECT EXISTS (SELECT FROM information_schema.tables WHERE table_name = :table)
CheckTableExists(w) ==
    /\ wpc[w] = "check"
    /\ table_exists' = [table_exists EXCEPT ![w] = tableExists]
    /\ before' = [before EXCEPT ![w] = tableRows]
    /\ wpc' = [wpc EXCEPT ![w] = IF tableExists THEN "sync" ELSE "create"]
    /\ UNCHANGED <<tableExists, tableCols, tableRows, END_DATE, df, dfCols,
                   txSnap, txDel, txIns, serial, table0, last, prev>>
    /\ UNCHANGED <<ovars, tvars, svars>>

\* the columns add_missing_columns leaves in the table: every ALTER runs in one
\* transaction; a failed statement aborts it, so that the later statements fail
\* too and the commit at the end of the block rolls everything back
ColsAfterSync(cols, required, failing) ==
    IF (required \ cols) \cap failing = {} THEN cols \cup required ELSE cols

\* add_missing_columns(engine, TABLE_NAME, df.columns)
add_missing_columns(w) ==
    /\ wpc[w] = "sync"
    /\ IF ~tableExists
         THEN UNCHANGED tableCols
         ELSE /\ (dfCols[w] \ tableCols # {}) => \A v \in Writers \ {w} : ~InTx(v)
              /\ \E failing \in SUBSET (dfCols[w] \ tableCols) :
                    tableCols' = ColsAfterSync(tableCols, dfCols[w], failing)
    /\ wpc' = [wpc EXCEPT ![w] = "delete"]
    /\ UNCHANGED <<tableExists, tableRows, END_DATE, df, dfCols, table_exists,
                   txSnap, txDel, txIns, serial, table0, before, last, prev>>
    /\ UNCHANGED <<ovars, tvars, svars>>

\* engine.begin() and the start of the DELETE statement: its snapshot is taken
DeleteStart(w) ==
    /\ wpc[w] = "delete"
    /\ tableExists
    /\ txSnap' = [txSnap EXCEPT ![w] = DeleteWhere(tableRows, START_DATE, END_DATE[w])]
    /\ before' = [before EXCEPT ![w] = tableRows]
    /\ wpc' = [wpc EXCEPT ![w] = "deleting"]
    /\ UNCHANGED <<tableExists, tableCols, tableRows, END_DATE, df, dfCols,
                   table_exists, txDel, txIns, serial, table0, last, prev>>
    /\ UNCHANGED <<ovars, tvars, svars>>

\* the DELETE statement completes once no other open transaction holds a lock on
\* a row it selected; rows another transaction deleted meanwhile are skipped
DeleteFinish(w) ==
    /\ wpc[w] = "deleting"
    /\ \A v \in Writers \ {w} : InTx(v) => txDel[v] \cap txSnap[w] = {}
    /\ txDel' = [txDel EXCEPT ![w] = txSnap[w] \cap tableRows]
    /\ wpc' = [wpc EXCEPT ![w] = "insert"]
    /\ UNCHANGED <<tableExists, tableCols, tableRows, END_DATE, df, dfCols,
                   table_exists, txSnap, txIns, serial, table0, before, last, prev>>
    /\ UNCHANGED <<ovars, tvars, svars>>

\* df.to_sql(TABLE_NAME, conn, if_exists="append", index=False)
Insert(w) ==
    /\ wpc[w] = "insert"
    /\ dfCols[w] \subseteq tableCols
    /\ txIns' = [txIns EXCEPT ![w] = ToSqlRows(df[w], w)]
    /\ wpc' = [wpc EXCEPT ![w] = "commit"]
    /\ UNCHANGED <<tableExists, tableCols, tableRows, END_DATE, df, dfCols,
                   table_exists, txSnap, txDel, serial, table0, before, last, prev>>
    /\ UNCHANGED <<ovars, tvars, svars>>

\* the end of the "with engine.begin()" block: COMMIT
Commit(w) ==
    /\ wpc[w] = "commit"
    /\ tableRows' = CommitRows(tableRows, txDel[w], txIns[w])
    /\ last' = [kind |-> "upsert", start |-> START_DATE, end |-> END_DATE[w], df |-> df[w],
                window |-> Count(WindowRows(tableRows', START_DATE, END_DATE[w]))]
    /\ txSnap' = [txSnap EXCEPT ![w] = {}]
    /\ txDel' = [txDel EXCEPT ![w] = {}]
    /\ txIns' = [txIns EXCEPT ![w] = {}]
    /\ wpc' = [wpc EXCEPT ![w] = "done"]
    /\ prev' = last
    /\ UNCHANGED <<tableExists, tableCols, END_DATE, df, dfCols, table_exists,
                   serial, table0, before>>
    /\ UNCHANGED <<ovars, tvars, svars>>

\* the DELETE or the INSERT raises (lost connection, lock timeout, a column the
\* table lacks, an incompatible type): the block rolls back and the script dies
WriteFails(w) ==
    /\ \/ wpc[w] = "deleting"
       \/ wpc[w] = "insert"
    /\ tableRows' = RollbackRows(tableRows, txDel[w], txIns[w])
    /\ txSnap' = [txSnap EXCEPT ![w] = {}]
    /\ txDel' = [txDel EXCEPT ![w] = {}]
    /\ txIns' = [txIns EXCEPT ![w] = {}]
    /\ wpc' = [wpc EXCEPT ![w] = "failed"]
    /\ UNCHANGED <<tableExists, tableCols, END_DATE, df, dfCols, table_exists,
                   serial, table0, before, last, prev>>
    /\ UNCHANGED <<ovars, tvars, svars>>

\* the else branch: df.to_sql(TABLE_NAME, conn, if_exists="replace", index=False)
\* inside engine.begin(); DROP TABLE waits for the other open transactions
CreateTable(w) ==
    /\ wpc[w] = "create"
    /\ tableExists => \A v \in Writers \ {w} : ~InTx(v)
    /\ tableExists' = TRUE
    /\ tableCols' = dfCols[w]
    /\ tableRows' = ReplaceRows(tableRows, ToSqlRows(df[w], w))
    /\ last' = [kind |-> "create", start |-> START_DATE, end |-> END_DATE[w], df |-> df[w],
                window |-> Count(WindowRows(tableRows', START_DATE, END_DATE[w]))]
    /\ wpc' = [wpc EXCEPT ![w] = "done"]
    /\ prev' = last
    /\ UNCHANGED <<END_DATE, df, dfCols, table_exists, txSnap, txDel, txIns,
                   serial, table0, before>>
    /\ UNCHANGED <<ovars, tvars, svars>>

\* the script ends (normally, or with the traceback of the failed write)
Exit(w) ==
    /\ wpc[w] \in {"done", "failed"}
    /\ wpc' = [wpc EXCEPT ![w] = IF wpc[w] = "done" THEN "exited" ELSE "crashed"]
    /\ UNCHANGED <<tableExists, tableCols, tableRows, END_DATE, df, dfCols,
                   table_exists, txSnap, txDel, txIns, serial, table0,
                   before, last, prev>>
    /\ UNCHANGED <<ovars, tvars, svars>>

\* processed = [flatten(r) for r in all_data]; df = pd.DataFrame(processed);
\* if df.empty: exit(). Every fetched row becomes one row of df, with its account_id;
\* the API was asked for [START_DATE, END_DATE] with time_increment 1, and the rows
\* of page p are those of the p-th day of the window (of its last day beyond that)
BuildDataFrame ==
    /\ mpc = "flatten"
    /\ wpc["run_a"] = "idle"
    /\ \E end \in START_DATE .. MaxDate :
          LET d == [i \in DOMAIN all_data |->
                      [date_start |-> Min(START_DATE + all_data[i].page - 1, end),
                       val |-> 1,
                       account_id |-> all_data[i].account_id]]
          IN  IF Empty(d)
                THEN /\ mpc' = "exit"
                     /\ UNCHANGED <<END_DATE, df, dfCols, wpc>>
                ELSE /\ mpc' = "write"
                     /\ END_DATE' = [END_DATE EXCEPT !["run_a"] = end]
                     /\ df' = [df EXCEPT !["run_a"] = d]
                     /\ dfCols' = [dfCols EXCEPT !["run_a"] = BaseCols]
                     /\ wpc' = [wpc EXCEPT !["run_a"] = "check"]
    /\ UNCHANGED <<tableExists, tableCols, tableRows, table_exists, txSnap, txDel, txIns,
                   serial, table0, before, last, prev>>
    /\ UNCHANGED <<idx, jobs, completed_jobs, all_data, outcome, srvPages, pollVars, fetchVars>>
    /\ UNCHANGED <<tvars, svars>>

\* destination tables the scripts find: absent (first run ever), or left by earlier
\* runs with one row per date of some set of dates
InitialRows(ds) == {[id |-> <<"old", d>>, date_start |-> d, val |-> 1] : d \in ds}

InitWrite ==
    /\ tableExists \in BOOLEAN
    /\ IF tableExists
         THEN /\ \E ds \in SUBSET Dates : tableRows = InitialRows(ds)
              /\ tableCols = BaseCols
         ELSE tableRows = {} /\ tableCols = {}
    /\ wpc = [w \in Writers |-> "idle"]
    /\ END_DATE = [w \in Writers |-> 0]
    /\ df = [w \in Writers |-> <<>>]
    /\ dfCols = [w \in Writers |-> {}]
    /\ table_exists = [w \in Writers |-> FALSE]
    /\ txSnap = [w \in Writers |-> {}]
    /\ txDel = [w \in Writers |-> {}]
    /\ txIns = [w \in Writers |-> {}]
    /\ table0 = [exists |-> tableExists, rows |-> tableRows]
    /\ before = [w \in Writers |-> {}]
    /\ last = NoLast
    /\ prev = NoLast
    /\ NoJobs
    /\ NoFlatten
    /\ NoSync

NextWrite ==
    \E w \in Writers :
        \/ BeginRun(w)
        \/ CheckTableExists(w)
        \/ add_missing_columns(w)
        \/ DeleteStart(w)
        \/ DeleteFinish(w)
        \/ Insert(w)
        \/ Commit(w)
        \/ WriteFails(w)
        \/ CreateTable(w)
        \/ Exit(w)

(***************************************************************************)
(* Specifications of the write stage.                                       *)
(***************************************************************************)
\* invocations of the script one after the other
Init == InitWrite /\ serial = TRUE

Next == NextWrite

Spec == Init /\ [][Next]_vars

\* invocations of the script that may overlap
InitConc == InitWrite /\ serial = FALSE

SpecConc == InitConc /\ [][NextWrite]_vars

(***************************************************************************)
(* Specifications of the orchestrator.                                      *)
(***************************************************************************)
\* the destination of a script that has not reached its write stage
NoWrite ==
    /\ tableExists = FALSE /\ tableRows = {} /\ tableCols = {}
    /\ wpc = [w \in Writers |-> "idle"]
    /\ END_DATE = [w \in Writers |-> 0]
    /\ df = [w \in Writers |-> <<>>]
    /\ dfCols = [w \in Writers |-> {}]
    /\ table_exists = [w \in Writers |-> FALSE]
    /\ txSnap = [w \in Writers |-> {}]
    /\ txDel = [w \in Writers |-> {}]
    /\ txIns = [w \in Writers |-> {}]
    /\ serial = TRUE
    /\ table0 = [exists |-> FALSE, rows |-> {}]
    /\ before = [w \in Writers |-> {}]
    /\ last = NoLast
    /\ prev = NoLast

\* the whole main fetch loop over AD_ACCOUNT_IDS
InitJobs ==
    /\ srvPages \in [1 .. NumAccounts -> UNION {JobPageConfigs(a) : a \in 1 .. NumAccounts}]
    /\ \A a \in 1 .. NumAccounts : srvPages[a] \in JobPageConfigs(a)
    /\ mpc = "submit" /\ idx = 1 /\ jobs = <<>> /\ completed_jobs = <<>> /\ all_data = <<>>
    /\ outcome = [a \in 1 .. NumAccounts |-> "none"]
    /\ NoPoll
    /\ NoFetch
    /\ NoWrite
    /\ NoFlatten
    /\ NoSync

NextJobs ==
    \/ SubmitJob
    \/ SubmitLoopEnds
    \/ PollEnter
    \/ PollTimeout
    \/ PollRequest
    \/ PollReturn
    \/ PollLoopEnds
    \/ FetchEnter
    \/ FetchPage
    \/ FetchReturn
    \/ FetchLoopEnds

SpecJobs == InitJobs /\ [][NextJobs]_vars

\* one call of poll_job, for the job of the first account
InitPoll ==
    /\ srvPages = [a \in 1 .. NumAccounts |-> PagesFor(a, <<1>>, 0)]
    /\ mpc = "poll" /\ idx = 1
    /\ jobs = <<[account |-> 1, job_id |-> JobId(1)]>>
    /\ completed_jobs = <<>> /\ all_data = <<>>
    /\ outcome = [a \in 1 .. NumAccounts |-> IF a = 1 THEN "submitted" ELSE "rejected"]
    /\ NoPoll
    /\ NoFetch
    /\ NoWrite
    /\ NoFlatten
    /\ NoSync

NextPoll ==
    \/ PollEnter
    \/ PollTimeout
    \/ PollRequest

SpecPoll == InitPoll /\ [][NextPoll]_vars

\* the script keeps executing poll_job's loop, and every status request returns
SpecPollFair == SpecPoll /\ WF_vars(NextPoll)

\* the third loop, for the completed job of the first account and any result
InitFetch ==
    /\ \E pages \in PageConfigs(1) :
          srvPages = [a \in 1 .. NumAccounts |-> IF a = 1 THEN pages ELSE PagesFor(a, <<1>>, 0)]
    /\ mpc = "fetch" /\ idx = 1
    /\ jobs = <<[account |-> 1, job_id |-> JobId(1)]>>
    /\ completed_jobs = jobs /\ all_data = <<>>
    /\ outcome = [a \in 1 .. NumAccounts |-> IF a = 1 THEN "completed" ELSE "rejected"]
    /\ NoPoll
    /\ NoFetch
    /\ NoWrite
    /\ NoFlatten
    /\ NoSync

NextFetch ==
    \/ FetchEnter
    \/ FetchPage
    \/ FetchReturn
    \/ FetchLoopEnds

SpecFetch == InitFetch /\ [][NextFetch]_vars

\* the third loop, for a result whose pages carry any cursors
InitFetchCursors ==
    /\ \E pages \in CursorConfigs(1) :
          srvPages = [a \in 1 .. NumAccounts |-> IF a = 1 THEN pages ELSE PagesFor(a, <<1>>, 0)]
    /\ mpc = "fetch" /\ idx = 1
    /\ jobs = <<[account |-> 1, job_id |-> JobId(1)]>>
    /\ completed_jobs = jobs /\ all_data = <<>>
    /\ outcome = [a \in 1 .. NumAccounts |-> IF a = 1 THEN "completed" ELSE "rejected"]
    /\ NoPoll
    /\ NoFetch
    /\ NoWrite
    /\ NoFlatten
    /\ NoSync

NextFetchCursors ==
    \/ FetchEnter
    \/ FetchPageCapped
    \/ FetchReturn
    \/ FetchLoopEnds

\* the script keeps executing, and every request for a page returns
SpecFetchCursors == InitFetchCursors /\ [][NextFetchCursors]_vars /\ WF_vars(NextFetchCursors)

(***************************************************************************)
(* Claims about the write stage.                                            *)
(***************************************************************************)
\* the step in which run w commits its delete-then-insert transaction
CommitStep(w) == wpc[w] = "commit" /\ wpc'[w] = "done"

\* C1: when the write to an existing table commits, the rows dated inside the
\* window [START_DATE, END_DATE] are exactly the rows of the run's DataFrame, each
\* once, and no row that was in the window when the write began is still there
C1_WindowEqualsProduced ==
    [][\A w \in Writers :
          CommitStep(w) =>
             /\ Count(WindowRows(tableRows', START_DATE, END_DATE[w])) = CountSeq(df[w])
             /\ WindowRows(before[w], START_DATE, END_DATE[w]) \cap tableRows' = {}]_vars

\* a committed write that replaced stale rows of the window by a DataFrame with
\* two equal rows
C1_Witness ==
    \E w \in Writers :
        /\ wpc[w] = "done"
        /\ table_exists[w]
        /\ WindowRows(before[w], START_DATE, END_DATE[w]) # {}
        /\ Len(df[w]) = 2 /\ df[w][1] = df[w][2]
        /\ Count(tableRows)[df[w][1]] = 2

\* the table after run w's write is applied alone to the table t
WriteAlone(t, w) == CommitRows(t, DeleteWhere(t, START_DATE, END_DATE[w]), ToSqlRows(df[w], w))

\* run w took the delete-then-insert branch and committed it
Upserted(w) == wpc[w] \in {"done", "exited"} /\ table_exists[w]

\* C2: when two runs apply the delete-then-insert write to the same existing table
\* at the same time, the table ends as if the two writes had run one after the
\* other in some order
C2_WritesSerialize ==
    (table0.exists /\ \A w \in Writers : Upserted(w)) =>
        \/ tableRows = WriteAlone(WriteAlone(table0.rows, "run_a"), "run_b")
        \/ tableRows = WriteAlone(WriteAlone(table0.rows, "run_b"), "run_a")

\* C3: a write that repeats the previous write's DataFrame and window leaves the
\* window's content as the previous write left it
C3_RepeatedWriteIdempotent ==
    (/\ prev.kind # "none"
     /\ last.kind = "upsert"
     /\ prev.df = last.df
     /\ prev.end = last.end) => last.window = prev.window

\* the same DataFrame written twice, first on the create branch and then on the
\* delete-then-insert branch
C3_Witness ==
    /\ prev.kind = "create"
    /\ last.kind = "upsert"
    /\ prev.df = last.df /\ prev.end = last.end
    /\ last.window = prev.window
    /\ Len(last.df) = 2

\* C4: no step of a run deletes or changes a row dated outside the run's window
C4_OutsideWindowUntouched ==
    [][\A w \in Writers :
          wpc[w] \notin {"idle", "exited", "crashed"} =>
             OutsideRows(tableRows', START_DATE, END_DATE[w])
                = OutsideRows(tableRows, START_DATE, END_DATE[w])]_vars

\* a committed write whose table held rows in the window, before START_DATE and
\* after END_DATE
C4_Witness ==
    \E w \in Writers :
        /\ wpc[w] = "done"
        /\ table_exists[w]
        /\ WindowRows(before[w], START_DATE, END_DATE[w]) # {}
        /\ \E r \in tableRows : r.date_start < START_DATE /\ r \in before[w]
        /\ \E r \in tableRows : r.date_start > END_DATE[w] /\ r \in before[w]

\* C5: while the delete-then-insert transaction is open, and after it failed, the
\* committed rows are the rows the table held when the write began
C5_FailedWriteRolledBack ==
    \A w \in Writers :
        wpc[w] \in {"deleting", "insert", "commit", "failed"} => tableRows = before[w]

\* a write that failed on a table holding rows inside and outside the window
C5_Witness ==
    \E w \in Writers :
        /\ wpc[w] = "failed"
        /\ WindowRows(tableRows, START_DATE, END_DATE[w]) # {}
        /\ OutsideRows(tableRows, START_DATE, END_DATE[w]) # {}
        /\ tableRows = before[w]

\* the resolver applied to one raw row
InitResolve ==
    /\ row \in ResolverRows
    /\ tpc = "input"
    /\ script = "none"
    /\ ret = NotFound
    /\ processed = <<>>
    /\ NoWrite
    /\ NoJobs
    /\ NoSync

NextResolve == ExtractResult \/ ExtractResultRegion

SpecResolve == InitResolve /\ [][NextResolve]_vars

\* the flatten stage of one of the scripts, applied to a batch
InitFlatten ==
    /\ script \in Scripts
    /\ row \in RawRows(script)
    /\ tpc = "batch"
    /\ ret = NotFound
    /\ processed = <<>>
    /\ NoWrite
    /\ NoJobs
    /\ NoSync

NextFlatten == FlattenBatch

SpecFlatten == InitFlatten /\ [][NextFlatten]_vars

\* sync_all_schemas for one table
InitSync ==
    /\ has_table \in BOOLEAN
    /\ columns \in UNION {[cs -> {"TEXT", "DOUBLE PRECISION"}] : cs \in SUBSET ColumnNames}
    /\ has_table = (columns # EmptyMap)
    /\ df_columns \in SUBSET ColumnNames
    /\ spc = "start"
    /\ missing_cols = {} /\ bad = {} /\ txOk = TRUE /\ txAdded = {} /\ alters = <<>>
    /\ succeeded = {}
    /\ columns0 = columns
    /\ NoWrite
    /\ NoJobs
    /\ NoFlatten

NextSync == SyncBegin \/ AlterColumn \/ SyncCommit

SpecSync == InitSync /\ [][NextSync]_vars

\* what an earlier run over all the accounts left in the table: one row per account
\* and date
EarlierRunRows ==
    {[id |-> <<"old", a, d>>, date_start |-> d, val |-> 1, account_id |-> a] :
        a \in 1 .. NumAccounts, d \in Dates}

\* one whole run of meta_age.py: the three loops, the DataFrame, the write
InitRun ==
    /\ srvPages \in [1 .. NumAccounts -> UNION {JobPageConfigs(a) : a \in 1 .. NumAccounts}]
    /\ \A a \in 1 .. NumAccounts : srvPages[a] \in JobPageConfigs(a)
    /\ mpc = "submit" /\ idx = 1 /\ jobs = <<>> /\ completed_jobs = <<>> /\ all_data = <<>>
    /\ outcome = [a \in 1 .. NumAccounts |-> "none"]
    /\ NoPoll
    /\ NoFetch
    /\ tableExists \in BOOLEAN
    /\ IF tableExists
         THEN tableRows = EarlierRunRows /\ tableCols = BaseCols
         ELSE tableRows = {} /\ tableCols = {}
    /\ wpc = [w \in Writers |-> "idle"]
    /\ END_DATE = [w \in Writers |-> 0]
    /\ df = [w \in Writers |-> <<>>]
    /\ dfCols = [w \in Writers |-> {}]
    /\ table_exists = [w \in Writers |-> FALSE]
    /\ txSnap = [w \in Writers |-> {}]
    /\ txDel = [w \in Writers |-> {}]
    /\ txIns = [w \in Writers |-> {}]
    /\ serial = TRUE
    /\ table0 = [exists |-> tableExists, rows |-> tableRows]
    /\ before = [w \in Writers |-> {}]
    /\ last = NoLast
    /\ prev = NoLast
    /\ NoFlatten
    /\ NoSync

NextRun ==
    \/ NextJobs
    \/ BuildDataFrame
    \/ CheckTableExists("run_a")
    \/ add_missing_columns("run_a")
    \/ DeleteStart("run_a")
    \/ DeleteFinish("run_a")
    \/ Insert("run_a")
    \/ Commit("run_a")
    \/ WriteFails("run_a")
    \/ CreateTable("run_a")
    \/ Exit("run_a")

SpecRun == InitRun /\ [][NextRun]_vars

(***************************************************************************)
(* Claims about the orchestrator.                                           *)
(***************************************************************************)
\* the first page of a result whose response carries no "data" (Len + 1: none)
FirstFail(pages) ==
    IF \A p \in DOMAIN pages : pages[p].ok THEN Len(pages) + 1
    ELSE CHOOSE p \in DOMAIN pages : ~pages[p].ok /\ \A q \in 1 .. p - 1 : pages[q].ok

\* the rows of the pages 1 .. n of a result, in page order
RECURSIVE ConcatPages(_, _)
ConcatPages(pages, n) ==
    IF n = 0 THEN <<>> ELSE ConcatPages(pages, n - 1) \o pages[n].data

\* the rows the API serves for a result before its first failing page
ServedRows(pages) == ConcatPages(pages, FirstFail(pages) - 1)

\* the rows of all_data collected for an account
AccountRows(account) ==
    LET Of(r) == r.account_id = account IN SelectSeq(all_data, Of)

\* the three loops are over
LoopsOver == mpc \in {"exit", "flatten"}

\* C6: whatever becomes of the other accounts' jobs, every account is submitted,
\* every accepted job is polled, and all_data holds for each completed job exactly
\* the rows the API serves for it, and nothing for the other accounts
C6_AccountsIndependent ==
    LoopsOver =>
        \A a \in 1 .. NumAccounts :
            /\ outcome[a] \in {"rejected", "failed", "skipped", "timeout", "completed"}
            /\ AccountRows(a) = IF outcome[a] = "completed"
                                  THEN Tagged(ServedRows(srvPages[a]), a)
                                  ELSE <<>>

\* the first account's poll timed out and the second account's rows were collected
C6_Witness ==
    /\ LoopsOver
    /\ outcome[1] = "timeout"
    /\ outcome[2] = "completed"
    /\ Len(AccountRows(2)) = 2

\* the pages of the result fetch_job_results is fetching
FetchedPages == srvPages[completed_jobs[idx].account]

\* C7: when no page fails, fetch_job_results requests the pages 1 .. n once each, in
\* order, and returns the rows of all pages in page order
C7_FetchAllPages ==
    (fpc = "returned" /\ FirstFail(FetchedPages) > Len(FetchedPages)) =>
        /\ requested = [i \in 1 .. Len(FetchedPages) |-> i]
        /\ page = Len(FetchedPages)
        /\ rows = ConcatPages(FetchedPages, Len(FetchedPages))

\* two full pages fetched with two requests
C7_Witness ==
    /\ fpc = "returned"
    /\ Len(FetchedPages) = 2
    /\ FirstFail(FetchedPages) = 3
    /\ Len(FetchedPages[1].data) = MaxPageRows
    /\ Len(FetchedPages[2].data) = 1
    /\ requested = <<1, 2>>
    /\ Len(rows) = MaxPageRows + 1

\* C8: when page k fails, fetch_job_results stops after the request for page k and
\* returns the rows of the pages before k, which then are in all_data
C8_PartialRowsKept ==
    /\ (fpc = "returned" /\ FirstFail(FetchedPages) <= Len(FetchedPages)) =>
          /\ requested = [i \in 1 .. FirstFail(FetchedPages) |-> i]
          /\ rows = ConcatPages(FetchedPages, FirstFail(FetchedPages) - 1)
    /\ (LoopsOver /\ FirstFail(srvPages[1]) <= Len(srvPages[1])) =>
          all_data = Tagged(ConcatPages(srvPages[1], FirstFail(srvPages[1]) - 1), 1)

\* the second page failed and the rows of the first page are in all_data
C8_Witness ==
    /\ LoopsOver
    /\ FirstFail(srvPages[1]) = 2
    /\ Len(all_data) = MaxPageRows
    /\ all_data[1].page = 1

\* C9: poll_job returns True exactly on a "Job Completed" response received in an
\* iteration whose timeout check passed; it returns False at once on "Job Failed"
\* or "Job Skipped"; once elapsed exceeds the timeout it returns False without
\* another status request; on any other status it goes on polling
C9_PollResult ==
    [][/\ ppc' = "returned" =>
             (success' <=> (status' = "Job Completed" /\ elapsed' <= timeout_minutes * 60))
       /\ (ppc = "loop" /\ elapsed > timeout_minutes * 60) =>
             (ppc' = "returned" /\ ~success' /\ status' = status)
       /\ (ppc = "loop" /\ elapsed <= timeout_minutes * 60) =>
             /\ status' \in Statuses
             /\ status' \in {"Job Failed", "Job Skipped"} => (ppc' = "returned" /\ ~success')
             /\ status' = "Job Completed" => (ppc' = "returned" /\ success')
             /\ status' \in {"Job Running", "unknown"} => ppc' = "loop"]_vars

\* a completion reported by the request issued exactly at the timeout
C9_Witness ==
    /\ ppc = "returned"
    /\ success
    /\ elapsed = timeout_minutes * 60

WellFormed(actions) == \A i \in DOMAIN actions : actions[i].action_type # Absent

\* the action types a script looks for, for an objective
Candidates(s, objective) ==
    IF s = "meta_data_full"
    THEN {OBJECTIVE_TO_RESULT_ACTIONS(objective)[k] :
             k \in DOMAIN OBJECTIVE_TO_RESULT_ACTIONS(objective)}
    ELSE ({OBJECTIVE_TO_RESULT_ACTION(objective)} \ {Absent})
             \cup (IF objective \in SalesObjectives THEN {"omni_purchase"} ELSE {})

\* the action types of the entries of a list
TypesIn(actions) == {actions[i].action_type : i \in DOMAIN actions}

\* C11: in both scripts, when none of the objective's candidate action types is
\* among the row's actions, the result is 0
C11_NoFallbackToOtherAction ==
    (/\ tpc = "done"
     /\ row.objective \notin AwarenessObjectives
     /\ WellFormed(row.actions)
     /\ Candidates(script, row.objective) \cap TypesIn(row.actions) = {})
        => ret = Return(Num(0))

\* the entry of actions whose type is the earliest present one of the candidates
PreferredEntry(actions, target_actions) ==
    LET present == {k \in DOMAIN target_actions : target_actions[k] \in TypesIn(actions)}
        first == CHOOSE k \in present : \A j \in present : k <= j
        entries == {i \in DOMAIN actions : actions[i].action_type = target_actions[first]}
    IN  actions[CHOOSE i \in entries : \A j \in entries : i <= j]

\* C12: in meta_data_full.py, for a non-awareness objective with some candidate
\* action type among the row's actions, the result is the value of the entry whose
\* type comes first in the objective's candidate list, wherever it stands in actions
C12_EarliestCandidateWins ==
    (/\ tpc = "done"
     /\ script = "meta_data_full"
     /\ row.objective \notin AwarenessObjectives
     /\ WellFormed(row.actions)
     /\ Candidates(script, row.objective) \cap TypesIn(row.actions) # {})
        => ret = Return(safe_float(
                     PreferredEntry(row.actions,
                                    OBJECTIVE_TO_RESULT_ACTIONS(row.objective)).value))

\* OUTCOME_SALES with purchase=50 listed before omni_purchase=3 gave 3
C12_Witness ==
    /\ tpc = "done"
    /\ script = "meta_data_full"
    /\ row.objective = "OUTCOME_SALES"
    /\ row.actions = <<[action_type |-> "purchase", value |-> "50"],
                       [action_type |-> "omni_purchase", value |-> "3"]>>
    /\ ret = Return(Num(3))

\* C13: in both scripts, for an awareness objective the result is the row's reach,
\* 0 when the row has none, whatever the actions are
C13_AwarenessUsesReach ==
    (tpc = "done" /\ row.objective \in AwarenessObjectives /\ WellFormed(row.actions))
        => ret = Return(IF row.reach = Absent THEN Num(0) ELSE safe_float(row.reach))

\* C14: extract_result returns, and returns a finite number, for every row
C14_ResolverTotal ==
    tpc = "done" => (ret.kind = "return" /\ ret.val.fin)

(***************************************************************************)
(* Claims about flatten.                                                    *)
(***************************************************************************)
\* meta_age.py's flatten returned for a row whose first native result has an
\* indicator and a first value
NativeResultFlattened ==
    /\ tpc = "done"
    /\ script = "meta_age"
    /\ NonEmptyList(row, Key("results"))
    /\ row.l[Key("results")][1].indicator \notin {Absent, ""}
    /\ FirstValue(row.l[Key("results")]).kind = "return"

\* the value of the flattened row's catalog value column for the indicator's
\* action type, else of its non-catalog value column, else 0
ValueColumnOf(d, indicator) ==
    FloatOfEither(d, CatalogValueKey(Normalize(IndicatorActionType(indicator))),
                     StandardValueKey(Normalize(IndicatorActionType(indicator))))

\* C15: for a row with a native result of indicator I, flatten sets result to the
\* result's first value, result_indicator to I, and result_value to the flattened
\* row's catalog value column for I's action type, else its non-catalog value
\* column, else 0
C15_ResultValueFromValueColumns ==
    NativeResultFlattened =>
        LET indicator == row.l[Key("results")][1].indicator IN
        /\ ret.val.f[ResultKey] = safe_float(FirstValue(row.l[Key("results")]).val)
        /\ ret.val.s[Key("result_indicator")] = indicator
        /\ ret.val.f[ResultValueKey] = ValueColumnOf(ret.val, indicator)

\* C16: flatten returns a row for every raw row, and the batch is processed whole
C16_FlattenTotal ==
    tpc # "batch" => (ret.kind = "return" /\ tpc = "done" /\ Len(processed) = 2)

\* C17: every row leaving the flatten stage has a result and a result_value column
\* and holds no array
C17_FlatRowShape ==
    tpc = "done" =>
        \A i \in DOMAIN processed :
            /\ ResultKey \in Keys(processed[i])
            /\ ResultValueKey \in Keys(processed[i])
            /\ DOMAIN processed[i].l = {}

(***************************************************************************)
(* Claims about schema sync.                                                *)
(***************************************************************************)
\* C18: a finished sync with no failing ALTER leaves an existing table with its old
\* columns, types unchanged, plus every required column it lacked, as TEXT, each
\* added by one ALTER; with nothing missing, or without a table, it executes no
\* ALTER and changes nothing
C18_SyncOnlyGrows ==
    (spc = "done" /\ txOk) =>
        /\ IF has_table
             THEN /\ DOMAIN columns = DOMAIN columns0 \cup df_columns
                  /\ \A c \in DOMAIN columns0 : columns[c] = columns0[c]
                  /\ \A c \in df_columns \ DOMAIN columns0 : columns[c] = "TEXT"
                  /\ {alters[i] : i \in DOMAIN alters} = df_columns \ DOMAIN columns0
                  /\ Len(alters) = Cardinality(df_columns \ DOMAIN columns0)
             ELSE columns = columns0 /\ alters = <<>>

\* a table with two columns gained two more, the old ones keeping their types
C18_Witness ==
    /\ spc = "done"
    /\ txOk
    /\ Len(alters) = 2
    /\ Cardinality(DOMAIN columns0) = 2
    /\ Cardinality(DOMAIN columns) = 4
    /\ \E c \in DOMAIN columns0 : columns0[c] = "DOUBLE PRECISION"

\* C19: when an ALTER fails, the sync still executes an ALTER for every missing
\* column, and the table has every column whose ALTER succeeded
C19_FailedAlterNotFatal ==
    spc = "done" =>
        /\ {alters[i] : i \in DOMAIN alters} = missing_cols
        /\ succeeded \subseteq DOMAIN columns

(***************************************************************************)
(* Claims about the job lifecycle.                                          *)
(***************************************************************************)
\* C20: per account the order is submit, poll, fetch. Every iteration of the first
\* loop submits for an account not submitted before and goes on to the next;
\* poll_job is entered only for a job whose submission returned its id, once, and
\* fetch_job_results only for a job whose poll reported completion, once; no page
\* is requested twice
C20_LifecycleOrdered ==
    /\ [][(mpc = "submit" /\ mpc' = "submit") =>
             /\ outcome[AD_ACCOUNT_IDS[idx]] = "none"
             /\ outcome'[AD_ACCOUNT_IDS[idx]] \in {"submitted", "rejected"}
             /\ idx' = idx + 1]_vars
    /\ [][(ppc = "call" /\ ppc' = "loop") =>
             /\ mpc = "poll"
             /\ outcome[jobs[idx].account] = "submitted"
             /\ jobs[idx].job_id = JobId(jobs[idx].account)]_vars
    /\ [][(ppc = "returned" /\ ppc' = "call") =>
             /\ outcome'[jobs[idx].account] \in {"completed", "failed", "skipped", "timeout"}
             /\ idx' = idx + 1]_vars
    /\ [][(fpc = "call" /\ fpc' = "loop") =>
             /\ mpc = "fetch"
             /\ outcome[completed_jobs[idx].account] = "completed"
             /\ AccountRows(completed_jobs[idx].account) = <<>>]_vars
    /\ [][(fpc = "returned" /\ fpc' = "call") => idx' = idx + 1]_vars
    /\ [](\A i, j \in DOMAIN jobs : jobs[i].account = jobs[j].account => i = j)
    /\ [](\A i, j \in DOMAIN completed_jobs :
             completed_jobs[i].account = completed_jobs[j].account => i = j)
    /\ [](\A i, j \in DOMAIN requested : requested[i] = requested[j] => i = j)

\* the first account's job went through submit, poll and a fetch of two pages; the
\* second account's submission was rejected
C20_Witness ==
    /\ LoopsOver
    /\ outcome[1] = "completed"
    /\ outcome[2] = "rejected"
    /\ Len(jobs) = 1
    /\ Len(completed_jobs) = 1
    /\ Len(all_data) = 2

\* C21: when the run's write is committed, the window holds exactly the rows the
\* run fetched for its completed accounts, whatever accounts they are: no row of the
\* window belongs to an account whose job was rejected, failed or timed out, the
\* rows an earlier run stored there for such an account included
C21_DeleteScopedByDateOnly ==
    wpc["run_a"] = "done" =>
        LET window == WindowRows(tableRows, START_DATE, END_DATE["run_a"])
        IN  /\ window = ToSqlRows(df["run_a"], "run_a")
            /\ \A a \in 1 .. NumAccounts :
                  {r \in window : r.account_id = a}
                     = {r \in ToSqlRows(df["run_a"], "run_a") : r.account_id = a}
            /\ \A a \in 1 .. NumAccounts :
                  Cardinality({r \in window : r.account_id = a})
                     = IF outcome[a] = "completed" THEN Len(ServedRows(srvPages[a])) ELSE 0
            /\ \A a \in 1 .. NumAccounts :
                  outcome[a] # "completed" =>
                     \A r \in WindowRows(table0.rows, START_DATE, END_DATE["run_a"]) :
                        r.account_id = a => r \notin tableRows

\* the first account completed with two rows, the second one's job failed or timed
\* out; the table held the second account's rows for both days of the window, and
\* the write is committed
C21_Witness ==
    /\ wpc["run_a"] = "done"
    /\ table_exists["run_a"]
    /\ END_DATE["run_a"] = 2
    /\ outcome[1] = "completed"
    /\ outcome[2] \in {"failed", "timeout"}
    /\ Len(df["run_a"]) = 2
    /\ Cardinality({r \in WindowRows(table0.rows, START_DATE, 2) : r.account_id = 2}) = 2
    /\ \A r \in tableRows : r.date_start >= START_DATE => r.account_id = 1

\* C22: as long as the run has collected no row, it has not entered the write stage:
\* no statement was issued, no transaction is open, and the table (existence, rows,
\* columns) is as the run found it; with the loops over, the run has ended
C22_NoRowsNoWrite ==
    all_data = <<>> =>
        /\ wpc = [w \in Writers |-> "idle"]
        /\ mpc \notin {"write"}
        /\ LoopsOver => mpc = "exit"
        /\ last = NoLast
        /\ txSnap["run_a"] = {} /\ txDel["run_a"] = {} /\ txIns["run_a"] = {}
        /\ tableExists = table0.exists
        /\ tableRows = table0.rows
        /\ tableCols = IF table0.exists THEN BaseCols ELSE {}

\* the run ended without data: one account completed with an empty result, the
\* other failed; the table exists and holds rows in the requested window
C22_Witness ==
    /\ mpc = "exit"
    /\ all_data = <<>>
    /\ \E a \in 1 .. NumAccounts : outcome[a] = "completed"
    /\ \E a \in 1 .. NumAccounts : outcome[a] \in {"failed", "timeout", "rejected"}
    /\ table0.exists
    /\ WindowRows(tableRows, START_DATE, MaxDate) # {}

\* C23: a run that found the table absent at its existence check and writes through
\* the create branch leaves every row committed by then for dates outside its window
C23_CreateKeepsCommittedRows ==
    [][\A w \in Writers :
          (wpc[w] = "create" /\ wpc'[w] = "done") =>
             OutsideRows(tableRows, START_DATE, END_DATE[w]) \subseteq tableRows']_vars

\* C24: whatever cursors the pages of a result carry, the call of fetch_job_results
\* returns, and the third loop ends
C24_FetchTerminates == <>(mpc \in {"exit", "flatten"})

====
